---- MODULE Spec2Model ----
(***************************************************************************)
(* Model of src/src/observe.py: the process-wide GlobalConfig, the logging *)
(* channel tree the module builds on (the standard library's Logger        *)
(* hierarchy), the sink constructors, the global and namespaced factories, *)
(* Log / Trace handles, and the logged / traced decorators.                *)
(*                                                                         *)
(* A channel name is the sequence of the components of its dotted name:    *)
(* "global.events.job" is <<"global", "events", "job">>, the root logger   *)
(* of the standard library is <<>>.  f"{a}.{b}" is a \o b, and the parent  *)
(* of a channel is the nearest existing channel whose name is a proper     *)
(* prefix, as the standard library resolves it.                            *)
(***************************************************************************)
EXTENDS Integers, Sequences, FiniteSets, TLC

VARIABLES
    cfg,      \* GlobalConfig: its class attributes, by name
    loggers,  \* the channels created so far, by name: level, propagate, handlers, disabled
    sinks,    \* the Handler objects constructed so far: dest, level (filter), fmt
    handles,  \* the Log / Trace objects the factories have returned
    last,     \* what the last operation did or returned
    deco,     \* the decorator logged(...) / traced(...) returned, or NoDeco
    call,     \* the wrapper call in progress: pc, the events so far, the result
    thr,      \* per thread: the factory call it is running and its position
    obs       \* what a reading thread last saw of a channel

vars == <<cfg, loggers, sinks, handles, last, deco, call, thr, obs>>

----------------------------------------------------------------------------
(* Levels (observe.py 40-46, 61-63, 74-81).                                *)

NOTSET == 0
DEBUG == 10
INFO == 20
TRACE == 25
WARN == 30
ERROR == 40
CRITICAL == 50

Level == {NOTSET, DEBUG, INFO, TRACE, WARN, ERROR, CRITICAL}

BEFORE == 0
AFTER == 1

----------------------------------------------------------------------------
(* Bounds of the model.                                                    *)

MaxSinks == 2      \* Handler objects constructed
MaxHandles == 3    \* Log / Trace objects alive at once
MaxDepth == 4      \* components of a channel name

----------------------------------------------------------------------------
(* GlobalConfig (observe.py 125-141).                                      *)

LoggerFields ==
    {"GLOBAL_LOGGER_NAME", "GLOBAL_LOGGER_LEVEL", "GLOBAL_LOGGER_STYLE",
     "GLOBAL_LOGGER_FORMAT", "GLOBAL_LOGGER_DATEFMT", "GLOBAL_LOGGER_PROPOGATE",
     "GLOBAL_LOGGER_FORCE_AS_ROOT", "GLOBAL_LOGGER_CAPTURE_WARNINGS"}

TracerFields ==
    {"GLOBAL_TRACER_NAME", "GLOBAL_TRACER_LEVEL", "GLOBAL_TRACER_STYLE",
     "GLOBAL_TRACER_FORMAT", "GLOBAL_TRACER_DATEFMT", "GLOBAL_TRACER_PROPOGATE"}

GlobalConfig ==
    [f \in LoggerFields \cup TracerFields |->
        CASE f = "GLOBAL_LOGGER_NAME" -> <<"global">>
          [] f = "GLOBAL_LOGGER_LEVEL" -> DEBUG
          [] f = "GLOBAL_LOGGER_STYLE" -> "{"
          [] f = "GLOBAL_LOGGER_FORMAT" -> "Format.CUSTOM"
          [] f = "GLOBAL_LOGGER_DATEFMT" -> "DateFormat.RFC_2822"
          [] f = "GLOBAL_LOGGER_PROPOGATE" -> FALSE
          [] f = "GLOBAL_LOGGER_FORCE_AS_ROOT" -> FALSE
          [] f = "GLOBAL_LOGGER_CAPTURE_WARNINGS" -> TRUE
          [] f = "GLOBAL_TRACER_NAME" -> <<"events">>
          [] f = "GLOBAL_TRACER_LEVEL" -> TRACE
          [] f = "GLOBAL_TRACER_STYLE" -> "{"
          [] f = "GLOBAL_TRACER_FORMAT" -> "Format.CUSTOM_TRACING"
          [] f = "GLOBAL_TRACER_DATEFMT" -> "DateFormat.RFC_2822"
          [] f = "GLOBAL_TRACER_PROPOGATE" -> FALSE]

\* hasattr(GlobalConfig, name): the attributes the class has now.
hasattr_GlobalConfig(c, name) == name \in DOMAIN c

\* name.startswith("GLOBAL"), over the attribute names the model uses.
startswith_GLOBAL(name) ==
    name \in LoggerFields \cup TracerFields \cup {"GLOBAL_X"}

(* A configuration source is an object given to update_global_config:      *)
(*   kind       "class", "instance", or "mapping" (a dict: no __dict__)    *)
(*   own        the object's own __dict__ (what vars() returns)            *)
(*   inherited  the attributes it has through its class or base classes    *)
(*   items      the key/value pairs of a mapping                           *)
Empty == [x \in {} |-> 0]

Source(kind, own, inherited, items) ==
    [kind |-> kind, own |-> own, inherited |-> inherited, items |-> items]

\* The sources the model calls update_global_config with, by index.
Sources ==
    << \* test_log.py: class simple, plus an attribute that is no field.
      Source("class",
             [a \in {"GLOBAL_LOGGER_LEVEL", "GLOBAL_TRACER_LEVEL", "FOO", "__module__"} |->
                CASE a = "GLOBAL_LOGGER_LEVEL" -> ERROR
                  [] a = "GLOBAL_TRACER_LEVEL" -> DEBUG
                  [] a = "FOO" -> "x"
                  [] a = "__module__" -> "test_log"],
             Empty, Empty),
      \* a class whose name starts with GLOBAL but is no declared field
      Source("class",
             [a \in {"GLOBAL_X", "GLOBAL_TRACER_PROPOGATE"} |->
                IF a = "GLOBAL_X" THEN "x" ELSE TRUE],
             Empty, Empty),
      \* an instance whose class declares the level: vars(instance) is empty
      Source("instance", Empty,
             [a \in {"GLOBAL_LOGGER_LEVEL"} |-> INFO], Empty),
      \* an instance with an attribute of its own and one from its class
      Source("instance",
             [a \in {"GLOBAL_TRACER_LEVEL"} |-> NOTSET],
             [a \in {"GLOBAL_LOGGER_PROPOGATE"} |-> TRUE], Empty),
      \* a subclass that inherits one field and declares another
      Source("class",
             [a \in {"GLOBAL_LOGGER_FORCE_AS_ROOT"} |-> TRUE],
             [a \in {"GLOBAL_LOGGER_LEVEL"} |-> INFO], Empty),
      \* a class that sets everything back
      Source("class",
             [a \in {"GLOBAL_LOGGER_LEVEL", "GLOBAL_TRACER_LEVEL",
                     "GLOBAL_LOGGER_FORCE_AS_ROOT", "GLOBAL_TRACER_PROPOGATE"} |->
                GlobalConfig[a]],
             Empty, Empty),
      \* the mapping of the specification's example
      Source("mapping", Empty, Empty,
             [a \in {"GLOBAL_LOGGER_LEVEL", "FOO"} |->
                IF a = "FOO" THEN "x" ELSE DEBUG]) >>

\* The names of the attributes a source exposes to getattr / hasattr.
Attributes(src) == DOMAIN src.own \cup DOMAIN src.inherited

\* getattr(config, attr): the object's own attribute first, then its class's.
getattr(src, a) == IF a \in DOMAIN src.own THEN src.own[a] ELSE src.inherited[a]

\* vars(config) raises TypeError for an object without __dict__.
vars_raises(src) == src.kind = "mapping"

\* vars(config).keys(): the object's own __dict__ only.
vars_keys(src) == DOMAIN src.own

global_config_attr(c, name) == startswith_GLOBAL(name) /\ hasattr_GlobalConfig(c, name)

\* The loop of update_global_config: setattr for every key that passes the filter.
MergedConfig(c, src) ==
    LET keys == {a \in vars_keys(src) : global_config_attr(c, a)}
    IN  [f \in DOMAIN c \cup keys |-> IF f \in keys THEN getattr(src, f) ELSE c[f]]

----------------------------------------------------------------------------
(* Sinks: the Handler constructors (observe.py 325-376).                   *)

\* The default of the level parameter of create_handler_stdout / _syslog / _file
\* / _file_rotating: GlobalConfig.GLOBAL_LOGGER_LEVEL, evaluated once, when the
\* def statement runs at import.
DefaultHandlerLevel == GlobalConfig["GLOBAL_LOGGER_LEVEL"]

NewHandler(dest, level) == [dest |-> dest, level |-> level, fmt |-> "none"]

----------------------------------------------------------------------------
(* The channel tree: logging.getLogger, Logger.setLevel, addHandler,       *)
(* isEnabledFor, getEffectiveLevel and callHandlers of the standard        *)
(* library, which Log.log delegates to (observe.py 187-188, 195).          *)

ROOT == <<>>

NewLogger == [level |-> NOTSET, propagate |-> TRUE, handlers |-> {}, disabled |-> FALSE]

\* The root logger of the standard library starts at WARNING.
InitLoggers == (ROOT :> [NewLogger EXCEPT !.level = WARN])

getLogger(ls, n) == IF n \in DOMAIN ls THEN ls ELSE ls @@ (n :> NewLogger)

setLevel(ls, n, level) == [ls EXCEPT ![n].level = level]

setPropagate(ls, n, p) == [ls EXCEPT ![n].propagate = p]

\* Logger.addHandler adds a handler once.
addHandler(ls, n, h) == [ls EXCEPT ![n].handlers = @ \cup {h}]

setFormatter(ss, h, fmt) == [ss EXCEPT ![h].fmt = fmt]

IsPrefix(p, n) == Len(p) <= Len(n) /\ SubSeq(n, 1, Len(p)) = p

Parent(n) == SubSeq(n, 1, Len(n) - 1)

\* The ancestors of n that exist, n itself included when it does.
Chain(ls, n) == {m \in DOMAIN ls : IsPrefix(m, n)}

\* Logger.getEffectiveLevel: the first level that is not NOTSET on the way up
\* from n to the root, NOTSET when there is none.
RECURSIVE getEffectiveLevel(_, _)
getEffectiveLevel(ls, n) ==
    IF n \in DOMAIN ls /\ ls[n].level # NOTSET THEN ls[n].level
    ELSE IF n = ROOT THEN NOTSET
    ELSE getEffectiveLevel(ls, Parent(n))

\* Logger.isEnabledFor: a disabled logger passes nothing; manager.disable is 0,
\* so a level <= 0 passes nothing; otherwise the effective level decides.
isEnabledFor(ls, n, level) ==
    /\ ~ls[n].disabled
    /\ ~(0 >= level)
    /\ level >= getEffectiveLevel(ls, n)

\* Logger.callHandlers: every handler of n and of its ancestors whose level is
\* <= the record's, up to and including the first channel that does not propagate.
RECURSIVE callHandlers(_, _, _, _)
callHandlers(ls, ss, n, level) ==
    LET here == IF n \in DOMAIN ls
                THEN {h \in ls[n].handlers : level >= ss[h].level}
                ELSE {}
    IN  IF n = ROOT \/ (n \in DOMAIN ls /\ ~ls[n].propagate) THEN here
        ELSE here \cup callHandlers(ls, ss, Parent(n), level)

\* Logger.log(level, msg): the sinks the record reaches.
Logger_log(ls, ss, n, level) ==
    IF isEnabledFor(ls, n, level) THEN callHandlers(ls, ss, n, level) ELSE {}

----------------------------------------------------------------------------
(* Log and Trace (observe.py 181-211).                                     *)

Handle(kind, name, level) == [kind |-> kind, name |-> name, level |-> level]

\* Log.__init__: Level(level) accepts the members of Level only; the channel
\* is looked up (or created) by name and its level set.
Log_init(ls, name, level) == setLevel(getLogger(ls, name), name, level)

\* A plausible slip: the record is checked against the level the handle stored
\* when it was built.
Log_log_stored(ls, ss, h, level) ==
    IF level >= h.level THEN callHandlers(ls, ss, h.name, level) ELSE {}

\* Log.log / Trace.log: self.logger.log(level, msg); the sinks the record reaches.
Log_log(ls, ss, h, level) == Logger_log(ls, ss, h.name, level)

\* A plausible slip: the span gets the configured default level, not its parent's.
Trace_span_default(h, leaf) == Handle("Trace", h.name \o <<leaf>>, TRACE)

\* Trace.span: Trace(f"{self._log.name}.{name}", self._log.level.value).
Trace_span(h, leaf) == Handle("Trace", h.name \o <<leaf>>, h.level)

----------------------------------------------------------------------------
(* The operations, each as one atomic call.                                *)

NoDeco == [fn |-> "none"]
Idle == [pc |-> "idle"]
NoThreads == <<>>
NoObs == [seen |-> "nothing"]

Init ==
    /\ cfg = GlobalConfig
    /\ loggers = InitLoggers
    /\ sinks = <<>>
    /\ handles = {}
    /\ last = [op |-> "import"]
    /\ deco = NoDeco
    /\ call = Idle
    /\ thr = NoThreads
    /\ obs = NoObs

Other == <<deco, call, thr, obs>>

\* update_global_config(config), config the i-th source.
update_global_config(i) ==
    LET src == Sources[i]
    IN  /\ IF vars_raises(src)
           THEN /\ last' = [op |-> "update_global_config", src |-> i, raised |-> "TypeError"]
                /\ cfg' = cfg
           ELSE /\ last' = [op |-> "update_global_config", src |-> i, raised |-> "none"]
                /\ cfg' = MergedConfig(cfg, src)
        /\ UNCHANGED <<loggers, sinks, handles, Other>>

\* The body the five constructors share: build the handler, handler.setLevel(level).
create_handler(dest, given, level) ==
    /\ Len(sinks) < MaxSinks
    /\ sinks' = Append(sinks, NewHandler(dest, level))
    /\ last' = [op |-> "create_handler", sink |-> Len(sinks) + 1, given |-> given]
    /\ UNCHANGED <<cfg, loggers, handles, Other>>

create_handler_stdout(given, level) ==
    create_handler("stdout", given, IF given THEN level ELSE DefaultHandlerLevel)

create_handler_stderr(given, level) ==
    create_handler("stderr", given, IF given THEN level ELSE ERROR)

create_handler_syslog(given, level) ==
    create_handler("syslog", given, IF given THEN level ELSE DefaultHandlerLevel)

create_handler_file(given, level) ==
    create_handler("file", given, IF given THEN level ELSE DefaultHandlerLevel)

create_handler_file_rotating(given, level) ==
    create_handler("file_rotating", given, IF given THEN level ELSE DefaultHandlerLevel)

\* Formatter(fmt=..., style=..., datefmt=...) of the logger and of the tracer.
LoggerFormatter(c) ==
    <<c["GLOBAL_LOGGER_FORMAT"], c["GLOBAL_LOGGER_STYLE"], c["GLOBAL_LOGGER_DATEFMT"]>>

TracerFormatter(c) ==
    <<c["GLOBAL_TRACER_FORMAT"], c["GLOBAL_TRACER_STYLE"], c["GLOBAL_TRACER_DATEFMT"]>>

\* for handler in handlers: handler.setFormatter(...); logger.addHandler(handler)
SinksFormatted(ss, hs, fmt) == [h \in DOMAIN ss |-> IF h \in hs THEN [ss[h] EXCEPT !.fmt = fmt] ELSE ss[h]]

HandlersAdded(ls, n, hs) == [ls EXCEPT ![n].handlers = @ \cup hs]

\* dictConfig({"version": 1, "force": True, ..., "handlers": handlers}): the
\* configuration is not incremental, so every existing logger it does not name
\* is disabled; "handlers" must be a mapping, so a list that is not empty raises.
dictConfig_raises(hs) == hs # {}

dictConfig(ls) == [n \in DOMAIN ls |-> IF n = ROOT THEN ls[n] ELSE [ls[n] EXCEPT !.disabled = TRUE]]

\* The channels after create_global_log has run up to its return statement.
GlobalLogChannels(c, ls, hs) ==
    LET name == c["GLOBAL_LOGGER_NAME"]
        l1 == setLevel(ls, ROOT, c["GLOBAL_LOGGER_LEVEL"])
        l2 == setLevel(getLogger(l1, name), name, c["GLOBAL_LOGGER_LEVEL"])
        l3 == setPropagate(l2, name, c["GLOBAL_LOGGER_PROPOGATE"])
        l4 == HandlersAdded(l3, name, hs)
    IN  IF c["GLOBAL_LOGGER_FORCE_AS_ROOT"] /\ ~dictConfig_raises(hs) THEN dictConfig(l4) ELSE l4

\* The program holds at most MaxHandles handles at once.
Room(h) == Cardinality(handles \cup {h}) <= MaxHandles

create_global_log(hs) ==
    LET name == cfg["GLOBAL_LOGGER_NAME"]
        level == cfg["GLOBAL_LOGGER_LEVEL"]
        ls == GlobalLogChannels(cfg, loggers, hs)
        h == Handle("Log", name, level)
    IN  /\ sinks' = SinksFormatted(sinks, hs, LoggerFormatter(cfg))
        /\ IF cfg["GLOBAL_LOGGER_FORCE_AS_ROOT"] /\ dictConfig_raises(hs)
           THEN /\ loggers' = ls
                /\ handles' = handles
                /\ last' = [op |-> "create_global_log", raised |-> "ValueError"]
           ELSE /\ Room(h)
                /\ loggers' = Log_init(ls, name, level)
                /\ handles' = handles \cup {h}
                /\ last' = [op |-> "create_global_log", raised |-> "none", h |-> h]
        /\ UNCHANGED <<cfg, Other>>

\* The channels after create_global_trace has run up to its return statement.
GlobalTraceChannels(c, ls, hs) ==
    LET name == c["GLOBAL_LOGGER_NAME"] \o c["GLOBAL_TRACER_NAME"]
        l1 == setLevel(getLogger(ls, name), name, c["GLOBAL_TRACER_LEVEL"])
        l2 == setPropagate(l1, name, c["GLOBAL_TRACER_PROPOGATE"])
    IN  HandlersAdded(l2, name, hs)

create_global_trace(hs) ==
    LET name == cfg["GLOBAL_LOGGER_NAME"] \o cfg["GLOBAL_TRACER_NAME"]
        level == cfg["GLOBAL_TRACER_LEVEL"]
        h == Handle("Trace", name, level)
    IN  /\ Room(h)
        /\ sinks' = SinksFormatted(sinks, hs, TracerFormatter(cfg))
        /\ loggers' = Log_init(GlobalTraceChannels(cfg, loggers, hs), name, level)
        /\ handles' = handles \cup {h}
        /\ last' = [op |-> "create_global_trace", raised |-> "none", h |-> h]
        /\ UNCHANGED <<cfg, Other>>

create_log_name(c, namespace) == c["GLOBAL_LOGGER_NAME"] \o namespace

create_trace_name(c, namespace) ==
    c["GLOBAL_LOGGER_NAME"] \o c["GLOBAL_TRACER_NAME"] \o namespace

create_log(namespace, level) ==
    LET h == Handle("Log", create_log_name(cfg, namespace), level)
    IN  /\ Room(h)
        /\ loggers' = Log_init(loggers, h.name, level)
        /\ handles' = handles \cup {h}
        /\ last' = [op |-> "create_log", raised |-> "none", h |-> h]
        /\ UNCHANGED <<cfg, sinks, Other>>

create_trace(namespace, level) ==
    LET h == Handle("Trace", create_trace_name(cfg, namespace), level)
    IN  /\ Room(h)
        /\ loggers' = Log_init(loggers, h.name, level)
        /\ handles' = handles \cup {h}
        /\ last' = [op |-> "create_trace", raised |-> "none", h |-> h]
        /\ UNCHANGED <<cfg, sinks, Other>>

\* t.span(leaf) on a Trace the program holds; the program keeps both handles
\* while it has room, and otherwise the span in its parent's place (t = t.span(x)).
span(t, leaf) ==
    LET h == Trace_span(t, leaf)
    IN  /\ t \in handles /\ t.kind = "Trace"
        /\ Len(h.name) <= MaxDepth
        /\ loggers' = Log_init(loggers, h.name, h.level)
        /\ handles' = IF Room(h) THEN handles \cup {h} ELSE (handles \ {t}) \cup {h}
        /\ last' = [op |-> "span", of |-> t, leaf |-> leaf, h |-> h]
        /\ UNCHANGED <<cfg, sinks, Other>>

\* h.log(level, msg) on a handle the program holds.
log(h, level) ==
    /\ h \in handles
    /\ last' = [op |-> "log", h |-> h, level |-> level,
                got |-> Log_log(loggers, sinks, h, level)]
    /\ UNCHANGED <<cfg, loggers, sinks, handles, Other>>

----------------------------------------------------------------------------
(* Spec: the factories and emission, called one after another.             *)

\* create_log(namespace, level) as the model calls it: "events" is the tracer's name.
LogCalls == {<<<<"events">>, NOTSET>>, <<<<"events">>, ERROR>>, <<<<"app">>, ERROR>>}
SinkLevels == {DEBUG, ERROR}
EmitLevels == {NOTSET, TRACE, ERROR}

Next ==
    \/ \E l \in SinkLevels : create_handler_stdout(TRUE, l)
    \/ \E hs \in SUBSET DOMAIN sinks : create_global_log(hs)
    \/ \E hs \in SUBSET DOMAIN sinks : create_global_trace(hs)
    \/ \E c \in LogCalls : create_log(c[1], c[2])
    \/ \E h \in handles, l \in EmitLevels : log(h, l)

Spec == Init /\ [][Next]_vars

----------------------------------------------------------------------------
(* SpecSpan: the tracer tree and its spans.                                *)

TraceNamespaces == {<<"job">>}
Leaves == {"step1"}
TraceLevels == {NOTSET, DEBUG, ERROR}
SpanSources == {1}

NextSpan ==
    \/ \E i \in SpanSources : update_global_config(i)
    \/ create_global_trace({})
    \/ \E ns \in TraceNamespaces, l \in TraceLevels : create_trace(ns, l)
    \/ \E t \in handles, x \in Leaves : span(t, x)

SpecSpan == Init /\ [][NextSpan]_vars

----------------------------------------------------------------------------
(* Claims about emission (Spec).  Every operation writes `last`, and log   *)
(* changes nothing else, so in a state whose last is a log the channels    *)
(* and sinks are those the record was emitted through.                     *)

Emitted == last.op = "log"

\* The threshold a channel applies: its own when that is not NOTSET, else that of
\* its nearest ancestor whose threshold is not NOTSET, else NOTSET.
ThresholdUsed(n) ==
    LET set == {m \in Chain(loggers, n) : loggers[m].level # NOTSET}
    IN  IF set = {} THEN NOTSET
        ELSE loggers[CHOOSE m \in set : \A k \in set : Len(k) <= Len(m)].level

\* C1 as stated (for a channel that was not disabled): a record at level L through
\* a handle on a Channel of threshold T reaches no sink if L < T, and if L >= T
\* reaches exactly the sinks attached to that Channel whose filter is <= L.
C1_AsStated ==
    Emitted /\ ~loggers[last.h.name].disabled =>
        LET T == loggers[last.h.name].level
            L == last.level
        IN  /\ L < T => last.got = {}
            /\ L >= T => \A s \in loggers[last.h.name].handlers :
                            s \in last.got <=> sinks[s].level <= L

\* C1, amended: the threshold is the Channel's at the moment of emission, not the
\* level stored in the handle, and a Channel whose own threshold is NOTSET applies
\* its nearest ancestor's.  A record below that threshold, a record at level
\* NOTSET, and a record through a disabled Channel reach no sink; any other record
\* reaches exactly the sinks attached to the Channel whose filter is <= its level.
C1_Threshold ==
    Emitted =>
        LET n == last.h.name
            L == last.level
            passes == ~loggers[n].disabled /\ L > NOTSET /\ L >= ThresholdUsed(n)
        IN  /\ (loggers[n].level # NOTSET => ThresholdUsed(n) = loggers[n].level)
            /\ ~passes => last.got = {}
            /\ passes => \A s \in loggers[n].handlers :
                            s \in last.got <=> sinks[s].level <= L

\* C1's case: a record below the level its handle stored, at or above the
\* Channel's threshold, reaches one attached sink and not another.
C1_Witness ==
    /\ Emitted
    /\ last.level < last.h.level
    /\ last.level >= loggers[last.h.name].level
    /\ loggers[last.h.name].level # NOTSET
    /\ \E s \in loggers[last.h.name].handlers : s \in last.got
    /\ \E s \in loggers[last.h.name].handlers : s \notin last.got

LoggerChannel == cfg["GLOBAL_LOGGER_NAME"]

TracerChannel == cfg["GLOBAL_LOGGER_NAME"] \o cfg["GLOBAL_TRACER_NAME"]

\* C2 as stated, in the reading most favourable to it (the record is above
\* NOTSET and at or above the threshold its Channel applies now): after
\* create_global_log under the default GlobalConfig, a record at level v >= l
\* through the Log of create_log(n, l) reaches every sink attached to the root
\* logger Channel whose filter is <= v, for every namespace n.
C2_RootSinksReceive ==
    /\ Emitted
    /\ last.h.kind = "Log" /\ Len(last.h.name) > Len(LoggerChannel)
    /\ cfg = GlobalConfig
    /\ LoggerChannel \in DOMAIN loggers
    /\ last.level >= last.h.level
    /\ last.level > NOTSET /\ last.level >= ThresholdUsed(last.h.name)
    => \A s \in loggers[LoggerChannel].handlers :
            sinks[s].level <= last.level => s \in last.got

\* The sinks only create_global_log attached, and those only create_global_trace did.
LogSinks ==
    IF LoggerChannel \in DOMAIN loggers
    THEN {s \in loggers[LoggerChannel].handlers : sinks[s].fmt = LoggerFormatter(cfg)}
    ELSE {}

TraceSinks ==
    IF TracerChannel \in DOMAIN loggers
    THEN {s \in loggers[TracerChannel].handlers : sinks[s].fmt = TracerFormatter(cfg)}
    ELSE {}

\* C9 as stated: the Channel of a Log is never the tracer Channel or a descendant
\* of it; a record through a Log never reaches a sink create_global_trace attached,
\* and a record through a Trace never reaches a sink create_global_log attached.
C9_Disjoint ==
    /\ \A h \in handles : h.kind = "Log" => ~IsPrefix(TracerChannel, h.name)
    /\ Emitted /\ last.h.kind = "Log" => last.got \cap (TraceSinks \ LogSinks) = {}
    /\ Emitted /\ last.h.kind = "Trace" => last.got \cap (LogSinks \ TraceSinks) = {}

----------------------------------------------------------------------------
(* Claims about spans (SpecSpan).                                          *)

Spanned == last.op = "span"

\* C10 as stated: the span's name is its parent's plus "." plus the leaf, and its
\* Channel's threshold is the threshold of the parent's Channel when span is called.
C10_AsStated ==
    Spanned =>
        /\ last.h.name = last.of.name \o <<last.leaf>>
        /\ loggers[last.h.name].level = loggers[last.of.name].level

\* C10, amended: t.span(x) returns a Trace named t's name + "." + x whose Channel
\* threshold is the level stored in the handle t when t was built (the threshold
\* of t's Channel only while no later factory call has changed it).  The two
\* Channels are distinct and the threshold is a copy: the span leaves its
\* parent's Channel as it was, and no later operation changes the threshold of a
\* Channel of the tracer tree together with that of one of its descendants.
C10_Span ==
    [][/\ last'.op = "span" /\ last' # last =>
            /\ last'.h.name = last'.of.name \o <<last'.leaf>>
            /\ Len(last'.h.name) = Len(last'.of.name) + 1
            /\ last'.h.kind = "Trace"
            /\ last'.h.level = last'.of.level
            /\ loggers'[last'.h.name].level = last'.of.level
            /\ last'.h \in handles'
            /\ loggers'[last'.of.name] = loggers[last'.of.name]
       /\ \A n \in DOMAIN loggers, m \in DOMAIN loggers :
            /\ IsPrefix(TracerChannel, n) /\ IsPrefix(n, m) /\ n # m
            /\ loggers'[m].level # loggers[m].level
            => loggers'[n].level = loggers[n].level]_vars

\* C10's case: a span of global.events.job, made from a handle whose Channel was given another
\* threshold after the handle was built.
C10_Witness ==
    /\ Spanned
    /\ Len(last.h.name) = 4
    /\ loggers[last.of.name].level # last.of.level
    /\ loggers[last.h.name].level = last.of.level

----------------------------------------------------------------------------
(* SpecCfg: the configuration merge, and the global factories reading it.  *)

NextCfg ==
    \/ \E i \in DOMAIN Sources : update_global_config(i)
    \/ create_handler_stderr(FALSE, ERROR)
    \/ \E hs \in SUBSET DOMAIN sinks : create_global_log(hs)
    \/ \E h \in handles : log(h, ERROR)

SpecCfg == Init /\ [][NextCfg]_vars

Updated == last.op = "update_global_config"

\* C6 as stated: after update_global_config(source), every GlobalConfig field
\* whose name is an attribute of source (its own, or inherited from its class)
\* holds source's value, every other field is unchanged, and the set of field
\* names is the same as before.
C6_WhitelistMerge ==
    [][last'.op = "update_global_config" /\ last'.raised = "none" =>
        LET src == Sources[last'.src]
        IN  /\ \A f \in DOMAIN cfg :
                IF f \in Attributes(src) THEN cfg'[f] = getattr(src, f)
                ELSE cfg'[f] = cfg[f]
            /\ DOMAIN cfg' = DOMAIN cfg]_vars

\* C7 as stated: update_global_config returns normally for every kind of input.
C7_NeverFails == Updated => last.raised = "none"

----------------------------------------------------------------------------
(* The decorators logged and traced (observe.py 379-430).                  *)

\* A channel's dotted name, as the pieces of the text it is printed as.
RECURSIVE Dotted(_)
Dotted(n) ==
    IF Len(n) = 0 THEN <<>>
    ELSE IF Len(n) = 1 THEN <<n[1]>>
    ELSE <<n[1], ".">> \o Dotted(Tail(n))

\* A plausible slip: the message names the phase and the message, not the channel.
ErrorText_unnamed(when, name, msg) == <<"when=", ToString(when), " during ", msg>>

\* f"{when=} during {log.name} {msg}"
ErrorText(when, name, msg) ==
    <<"when=", ToString(when), " during ">> \o Dotted(name) \o <<" ", msg>>

\* A plausible slip: the wrapper emits first whatever `when` says.
Wrapper_emit_first(phase) == <<"emit", "invoke", "return">>

\* The statements of the wrapper `before` and of the wrapper `after` build.
Wrapper(phase) ==
    IF phase = "before" THEN <<"emit", "invoke", "return">>
    ELSE <<"invoke", "emit", "return">>

\* A plausible slip: the emission after the call uses the level parameter in
\* logged too.
EmissionLevel_parameter(d) == d.level

\* The level of the wrapper's emission: `level`, except in logged's `after`,
\* which passes log.level.
EmissionLevel(d) ==
    IF d.fn = "logged" /\ d.phase = "after" THEN d.emitter.level ELSE d.level

\* The operations the model wraps: double(x) = x * 2, and one that raises.
Funcs == {"double", "fail"}

func_raises(f, x) == f = "fail"

func_value(f, x) == x * 2

\* logged(log, msg, when, level) and traced(trace, msg, when, level): the
\* decorator for BEFORE or AFTER, ValueError for any other `when`.
decorator(fn, h, msg, when, level) ==
    /\ h \in handles
    /\ call.pc = "idle"
    /\ IF when = BEFORE \/ when = AFTER
       THEN /\ deco' = [fn |-> fn, phase |-> IF when = BEFORE THEN "before" ELSE "after",
                        emitter |-> h, msg |-> msg, level |-> level]
            /\ last' = [op |-> fn, when |-> when, raised |-> "none"]
       ELSE /\ deco' = deco
            /\ last' = [op |-> fn, when |-> when, raised |-> "ValueError",
                        emitter |-> h, msg |-> msg,
                        text |-> ErrorText(when, h.name, msg)]
    /\ UNCHANGED <<cfg, loggers, sinks, handles, call, thr, obs>>

logged(h, msg, when, level) == h.kind = "Log" /\ decorator("logged", h, msg, when, level)

traced(h, msg, when, level) == h.kind = "Trace" /\ decorator("traced", h, msg, when, level)

\* wrapped(*args): the call of the function the decorator returned for func.
wrapped(f, x) ==
    /\ deco # NoDeco
    /\ call.pc = "idle"
    /\ call' = [pc |-> "running", at |-> 1, func |-> f, arg |-> x, events |-> <<>>]
    /\ last' = [op |-> "wrapped"]
    /\ UNCHANGED <<cfg, loggers, sinks, handles, deco, thr, obs>>

Running(stmt) == call.pc = "running" /\ Wrapper(deco.phase)[call.at] = stmt

\* log.log(level, msg) / log.log(log.level, msg) / trace.log(level, msg)
wrapped_emit ==
    /\ Running("emit")
    /\ call' = [call EXCEPT !.at = @ + 1,
                            !.events = Append(@, [ev |-> "emit", level |-> EmissionLevel(deco)])]
    /\ last' = [op |-> "log", h |-> deco.emitter, level |-> EmissionLevel(deco),
                got |-> Log_log(loggers, sinks, deco.emitter, EmissionLevel(deco))]
    /\ UNCHANGED <<cfg, loggers, sinks, handles, deco, thr, obs>>

\* func(*args, **kwargs): its value is kept, or its exception leaves the wrapper.
wrapped_invoke ==
    /\ Running("invoke")
    /\ IF func_raises(call.func, call.arg)
       THEN call' = [pc |-> "raised", func |-> call.func, arg |-> call.arg,
                     events |-> Append(call.events, [ev |-> "invoke"])]
       ELSE call' = [pc |-> "running", at |-> call.at + 1, func |-> call.func,
                     arg |-> call.arg,
                     events |-> Append(call.events, [ev |-> "invoke"]),
                     value |-> func_value(call.func, call.arg)]
    /\ last' = [op |-> "func"]
    /\ UNCHANGED <<cfg, loggers, sinks, handles, deco, thr, obs>>

\* return value
wrapped_return ==
    /\ Running("return")
    /\ call' = [pc |-> "returned", func |-> call.func, arg |-> call.arg,
                events |-> call.events, result |-> call.value]
    /\ last' = [op |-> "return"]
    /\ UNCHANGED <<cfg, loggers, sinks, handles, deco, thr, obs>>

\* The caller takes the result (or the exception) and may call again.
wrapped_done ==
    /\ call.pc \in {"returned", "raised"}
    /\ call' = Idle
    /\ last' = [op |-> "done"]
    /\ UNCHANGED <<cfg, loggers, sinks, handles, deco, thr, obs>>

----------------------------------------------------------------------------
(* SpecDeco: emitters, decorators and calls of the wrapped operation.      *)

Whens == {BEFORE, AFTER, 2, 99}
Messages == {"m"}
DecoLevels == {INFO, ERROR}
Args == {0, 5}

NextDeco ==
    \/ \E l \in SinkLevels : create_handler_stdout(TRUE, l) /\ call.pc = "idle"
    \/ \E hs \in SUBSET DOMAIN sinks : create_global_log(hs) /\ call.pc = "idle"
    \/ \E l \in DecoLevels : create_trace(<<"job">>, l) /\ call.pc = "idle"
    \/ \E h \in handles, m \in Messages, w \in Whens, l \in DecoLevels : logged(h, m, w, l)
    \/ \E h \in handles, m \in Messages, w \in Whens, l \in DecoLevels : traced(h, m, w, l)
    \/ \E f \in Funcs, x \in Args : wrapped(f, x)
    \/ wrapped_emit
    \/ wrapped_invoke
    \/ wrapped_return
    \/ wrapped_done

SpecDeco == Init /\ [][NextDeco]_vars

----------------------------------------------------------------------------
(* Claims about the decorators (SpecDeco).                                 *)

Emits == {i \in DOMAIN call.events : call.events[i].ev = "emit"}

Invokes == {i \in DOMAIN call.events : call.events[i].ev = "invoke"}

C4_AsStated ==
    call.pc # "idle" =>
        \A e \in Emits :
            /\ deco.phase = "after" => call.events[e].level = deco.emitter.level
            /\ deco.phase = "before" => call.events[e].level = deco.level

\* C4, amended: with AFTER, logged emits at the level stored in its emitter and
\* ignores the level parameter; traced emits at the level parameter, with AFTER
\* as with BEFORE; with BEFORE logged emits at the level parameter too.
C4_Levels ==
    call.pc # "idle" =>
        \A e \in Emits :
            /\ deco.fn = "logged" /\ deco.phase = "after" =>
                    call.events[e].level = deco.emitter.level
            /\ deco.fn = "traced" => call.events[e].level = deco.level
            /\ deco.phase = "before" => call.events[e].level = deco.level

\* C4's case: logged with AFTER and a level parameter that differs from the
\* emitter's level has emitted.
C4_Witness ==
    /\ call.pc = "returned"
    /\ deco.fn = "logged" /\ deco.phase = "after"
    /\ deco.level # deco.emitter.level
    /\ Emits # {}

IsInfix(sub, seq) ==
    \E i \in 0..(Len(seq) - Len(sub)) : SubSeq(seq, i + 1, i + Len(sub)) = sub

\* C5: for every `when` other than BEFORE and AFTER, logged and traced raise the
\* invalid-argument error at once: its text contains the emitter's channel name
\* and the message, no decorator is returned, nothing is wrapped, invoked or
\* emitted, and no Channel, sink or GlobalConfig state changes.
C5_InvalidWhen ==
    [][last'.op \in {"logged", "traced"} /\ last'.when \notin {BEFORE, AFTER} =>
        /\ last'.raised = "ValueError"
        /\ IsInfix(Dotted(last'.emitter.name), last'.text)
        /\ IsInfix(<<last'.msg>>, last'.text)
        /\ UNCHANGED <<cfg, loggers, sinks, handles, deco, call>>
        /\ call.pc = "idle"]_vars

\* C5's case: traced(trace, "m", 99) on a Trace of the tracer tree has raised.
C5_Witness ==
    /\ last.op = "traced" /\ last.when = 99
    /\ last.raised = "ValueError"
    /\ last.text = <<"when=", "99", " during ", "global", ".", "events", ".", "job", " ", "m">>

----------------------------------------------------------------------------
(* SpecThreads: the factories run by threads, statement by statement.  No  *)
(* lock is taken in observe.py, so between two statements of one call any  *)
(* statement of another thread may run.                                    *)

MaxThreads == 2       \* threads, each making one factory call
MaxThreadSinks == 1   \* Handler objects constructed while the threads run

Threads == 1..MaxThreads

IdleThread == [op |-> "idle"]

\* A thread that has made its call.
DoneThread == [op |-> "done"]

\* Statements, by the line of observe.py they stand on.
Stmt(kind, chan, arg) == [kind |-> kind, chan |-> chan, arg |-> arg]

\* for handler in handlers: setFormatter, addHandler, in list order.
RECURSIVE HandlerLoop(_, _, _)
HandlerLoop(chan, hs, fmt) ==
    IF hs = {} THEN <<>>
    ELSE LET h == CHOOSE x \in hs : \A y \in hs : x <= y
         IN  <<Stmt("setFormatter", h, fmt), Stmt("addHandler", chan, h)>>
                \o HandlerLoop(chan, hs \ {h}, fmt)

\* create_global_log(handlers), lines 227-260.
Stmts_create_global_log(c, hs) ==
    LET name == c["GLOBAL_LOGGER_NAME"]
        level == c["GLOBAL_LOGGER_LEVEL"]
    IN  <<Stmt("setLevel", ROOT, level),
          Stmt("getLogger", name, 0),
          Stmt("setLevel", name, level),
          Stmt("propagate", name, c["GLOBAL_LOGGER_PROPOGATE"])>>
        \o HandlerLoop(name, hs, LoggerFormatter(c))
        \o (IF c["GLOBAL_LOGGER_FORCE_AS_ROOT"] THEN <<Stmt("dictConfig", name, hs)>> ELSE <<>>)
        \o <<Stmt("setLevel", name, level), Stmt("return", name, Handle("Log", name, level))>>

\* create_global_trace(handlers), lines 265-285.
Stmts_create_global_trace(c, hs) ==
    LET name == c["GLOBAL_LOGGER_NAME"] \o c["GLOBAL_TRACER_NAME"]
        level == c["GLOBAL_TRACER_LEVEL"]
    IN  <<Stmt("getLogger", name, 0),
          Stmt("setLevel", name, level),
          Stmt("propagate", name, c["GLOBAL_TRACER_PROPOGATE"])>>
        \o HandlerLoop(name, hs, TracerFormatter(c))
        \o <<Stmt("setLevel", name, level), Stmt("return", name, Handle("Trace", name, level))>>

\* create_log(namespace, level), lines 313-314 and 185-189.
Stmts_create_log(c, namespace, level) ==
    LET name == create_log_name(c, namespace)
    IN  <<Stmt("getLogger", name, 0),
          Stmt("setLevel", name, level),
          Stmt("return", name, Handle("Log", name, level))>>

\* create_trace(namespace, level), lines 321-322, 202 and 185-189.
Stmts_create_trace(c, namespace, level) ==
    LET name == create_trace_name(c, namespace)
    IN  <<Stmt("getLogger", name, 0),
          Stmt("setLevel", name, level),
          Stmt("return", name, Handle("Trace", name, level))>>

InitThreads ==
    /\ cfg = GlobalConfig
    /\ loggers = InitLoggers
    /\ sinks = <<>>
    /\ handles = {}
    /\ last = [op |-> "import"]
    /\ deco = NoDeco
    /\ call = Idle
    /\ thr = [t \in Threads |-> IdleThread]
    /\ obs = NoObs

\* Thread t enters a factory.
enter(t, op, hs, stmts) ==
    /\ thr[t].op = "idle"
    /\ thr' = [thr EXCEPT ![t] = [op |-> op, hs |-> hs, stmts |-> stmts, at |-> 1]]
    /\ last' = [op |-> "enter"]
    /\ UNCHANGED <<cfg, loggers, sinks, handles, deco, call, obs>>

\* Thread t runs its next statement.
statement(t) ==
    /\ thr[t].op \notin {"idle", "done"}
    /\ LET st == thr[t].stmts[thr[t].at]
           done == st.kind = "return"
       IN  /\ loggers' =
                CASE st.kind = "getLogger" -> getLogger(loggers, st.chan)
                  [] st.kind = "setLevel" -> setLevel(loggers, st.chan, st.arg)
                  [] st.kind = "propagate" -> setPropagate(loggers, st.chan, st.arg)
                  [] st.kind = "addHandler" -> addHandler(loggers, st.chan, st.arg)
                  [] st.kind = "dictConfig" ->
                        IF dictConfig_raises(st.arg) THEN loggers ELSE dictConfig(loggers)
                  [] OTHER -> loggers
           /\ sinks' = IF st.kind = "setFormatter" THEN setFormatter(sinks, st.chan, st.arg)
                       ELSE sinks
           /\ handles' = IF done /\ Room(st.arg) THEN handles \cup {st.arg} ELSE handles
           /\ thr' = [thr EXCEPT ![t] =
                        IF done \/ (st.kind = "dictConfig" /\ dictConfig_raises(st.arg))
                        THEN DoneThread ELSE [@ EXCEPT !.at = @ + 1]]
           /\ last' = [op |-> "statement"]
    /\ UNCHANGED <<cfg, deco, call, obs>>

\* The sinks of a global factory call in progress.
Formatter(op) == IF op = "create_global_log" THEN LoggerFormatter(cfg) ELSE TracerFormatter(cfg)

Target(op) == IF op = "create_global_log" THEN LoggerChannel ELSE TracerChannel

\* Thread t is inside a global factory on channel n and has set n's threshold.
ThresholdSetBy(t, n) ==
    /\ thr[t].op \in {"create_global_log", "create_global_trace"}
    /\ Target(thr[t].op) = n
    /\ \E i \in 1..(thr[t].at - 1) : thr[t].stmts[i].kind = "setLevel" /\ thr[t].stmts[i].chan = n

\* The sinks of such a call that are not yet attached to n, or not yet formatted.
Missing(n) ==
    UNION {{h \in thr[t].hs : h \notin loggers[n].handlers \/ sinks[h].fmt # Formatter(thr[t].op)} :
            t \in {u \in Threads : ThresholdSetBy(u, n)}}

\* Another thread reads channel n (as an emission through it does).
observe(n) ==
    /\ n \in DOMAIN loggers
    /\ obs' = [seen |-> "channel", name |-> n, missing |-> Missing(n)]
    /\ last' = [op |-> "observe"]
    /\ UNCHANGED <<cfg, loggers, sinks, handles, deco, call, thr>>

NextThreads ==
    \/ Len(sinks) < MaxThreadSinks /\ create_handler_stdout(TRUE, DEBUG)
    \/ \E t \in Threads, hs \in {DOMAIN sinks} :
            enter(t, "create_global_log", hs, Stmts_create_global_log(cfg, hs))
    \/ \E t \in Threads, hs \in {DOMAIN sinks} :
            enter(t, "create_global_trace", hs, Stmts_create_global_trace(cfg, hs))
    \/ \E t \in Threads : enter(t, "create_log", {}, Stmts_create_log(cfg, <<"app">>, ERROR))
    \/ \E t \in Threads : enter(t, "create_trace", {}, Stmts_create_trace(cfg, <<"job">>, ERROR))
    \/ \E t \in Threads : statement(t)
    \/ \E n \in {LoggerChannel, TracerChannel} : observe(n)

SpecThreads == InitThreads /\ [][NextThreads]_vars

\* C8 as stated: no thread ever observes a Channel partly configured: whenever
\* a thread reads a Channel, no factory call in progress has set that Channel's
\* threshold while sinks of the call are not yet attached or not yet formatted.
C8_NeverPartlyConfigured ==
    obs.seen = "channel" => obs.missing = {}

----------------------------------------------------------------------------
(* SpecSinks: the sink constructors, called with and without a level,      *)
(* between calls of update_global_config.                                  *)

SinkSources == {1, 3, 6}

NextSinks ==
    \/ \E i \in SinkSources : update_global_config(i)
    \/ \E g \in BOOLEAN, l \in SinkLevels : create_handler_stdout(g, l)
    \/ \E g \in BOOLEAN, l \in SinkLevels : create_handler_stderr(g, l)
    \/ \E g \in BOOLEAN, l \in SinkLevels : create_handler_syslog(g, l)
    \/ \E g \in BOOLEAN, l \in SinkLevels : create_handler_file(g, l)
    \/ \E g \in BOOLEAN, l \in SinkLevels : create_handler_file_rotating(g, l)

SpecSinks == Init /\ [][NextSinks]_vars

\* C11 as stated: a sink built by the console-out, syslog, file or rotating-file
\* constructor without an explicit level has the GlobalConfig logger level in
\* force when the constructor is called as its filter, and one built by the
\* console-err constructor without a level has ERROR.
C11_DefaultLevel ==
    last.op = "create_handler" /\ ~last.given =>
        sinks[last.sink].level =
            IF sinks[last.sink].dest = "stderr" THEN ERROR ELSE cfg["GLOBAL_LOGGER_LEVEL"]

====
